---------------------------- MODULE Spec2Model ----------------------------
(***************************************************************************)
(* A model of the tyrminell crate: byte-range wrappers (lib.rs), the CSI   *)
(* sequence (csi.rs), Fe escape sequences (fe_seq.rs), SGR parameters      *)
(* (sgr.rs) and the composite helpers (helpers.rs).                        *)
(*                                                                         *)
(* Text is modelled as the sequence of its bytes (every string the crate   *)
(* writes is ASCII, so characters and UTF-8 bytes coincide).  A serializer *)
(* is modelled as the sequence of effects it performs on its sink, in      *)
(* program order: W(bytes) for one write_str / write_char / write_all      *)
(* call, Panic for an arithmetic-overflow panic.  Run executes the effects *)
(* against a sink that may start failing, as the `?` operator does.        *)
(***************************************************************************)
EXTENDS Integers, Sequences, FiniteSets, TLC

VARIABLES
    sc,     \* the StateChange value under construction (builder chain)
    op,     \* the operation called last ("none" before any call)
    arg,    \* its argument
    sink,   \* the sink handed to a serializer: [reliable, cap]
    out,    \* the bytes the sink has accepted
    ret     \* the value the operation returned

vars == <<sc, op, arg, sink, out, ret>>

---------------------------------------------------------------------------
(* Bounds of the model *)

\* longest byte slice / body handed to slice_from_bytes, Csi and FeSeq
MaxLen == 3
\* an unreliable sink accepts 0..MaxCap writes before the write that fails
MaxCap == 27

(* Program constants *)

\* u8::MAX
U8Max == 255
\* ESC_STR = "\x1b"
ESC == 27
\* Csi::INTRO_BYTE = b'[' (also INTRO_STR)
INTRO_BYTE == 91
\* Csi::FINAL_STR = "m"
FINAL_BYTE == 109

Byte == 0..U8Max

\* the bytes slices and bodies are drawn from: both sides of every range
\* boundary the kinds use, ESC, '\' and the C1 bytes 0x97 and 0x9C
ByteSamples == {8, 27, 32, 49, 59, 92, 109, 127, 151, 156}
\* the u8 values colours are drawn from (1, 2 and 3 digits)
U8Samples == {0, 4, 200, 255}

Min(S) == CHOOSE x \in S : \A y \in S : x <= y

SeqsUpTo(S, n) == UNION {[1..k -> S] : k \in 0..n}

---------------------------------------------------------------------------
(* Text *)

\* an ASCII character given by its code
Chr(c) == <<c>>
\* the digit characters '0'..'9'
Digit(d) == 48 + d
\* a one-digit and a two-digit numeric string literal, character by character
D1(a) == <<Digit(a)>>
D2(a, b) == <<Digit(a), Digit(b)>>
SEMI == 59

\* core::fmt::Display for u8 / NonZeroU8: decimal, most significant digit first
RECURSIVE Dec(_)
Dec(n) == IF n < 10 THEN <<Digit(n)>> ELSE Dec(n \div 10) \o <<Digit(n % 10)>>

---------------------------------------------------------------------------
(* Effects on the sink *)

W(bytes) == <<"w", bytes>>
Panic == <<"panic", <<>>>>

RECURSIVE Flatten(_)
Flatten(evs) ==
    IF evs = <<>> THEN <<>> ELSE evs[1][2] \o Flatten(Tail(evs))

Sinks ==
    {[reliable |-> TRUE, cap |-> 0]}
        \cup {[reliable |-> FALSE, cap |-> k] : k \in 0..MaxCap}

\* the i-th write call is accepted by the sink: an unreliable sink fails its
\* (cap + 1)-th write (what it does with later writes shows only if the
\* serializer goes on writing)
Accepts(s, i) == s.reliable \/ i # s.cap + 1

\* the writes among evs[i..] that the sink accepts, up to the first panic
RECURSIVE AcceptedFrom(_, _, _)
AcceptedFrom(evs, s, i) ==
    IF i > Len(evs) \/ evs[i][1] = "panic" THEN <<>>
    ELSE (IF Accepts(s, i) THEN <<evs[i]>> ELSE <<>>) \o AcceptedFrom(evs, s, i + 1)

\* a variant of Run in which a failed write is not returned with `?`: the
\* serializer goes on and returns the result of its last write
Run_unpropagated(evs, s) ==
    LET Panics == {i \in 1..Len(evs) : evs[i][1] = "panic"}
        last == IF Panics = {} THEN Len(evs) ELSE Min(Panics) - 1
        acc == AcceptedFrom(evs, s, 1)
    IN  [ret |-> IF Panics # {} THEN "Panic"
                 ELSE IF last = 0 \/ Accepts(s, last) THEN "Ok" ELSE "Err",
         out |-> Flatten(acc),
         n   |-> Len(acc)]

\* Run the effects in order; `?` returns at the first failed write, a panic
\* unwinds.  Every effect before the stopping one is a write, so the i-th
\* effect is the i-th write.
Run(evs, s) ==
    LET Stops == {i \in 1..Len(evs) :
                    evs[i][1] = "panic" \/ ~Accepts(s, i)}
    IN  IF Stops = {}
        THEN [ret |-> "Ok", out |-> Flatten(evs), n |-> Len(evs)]
        ELSE LET k == Min(Stops)
             IN  [ret |-> IF evs[k][1] = "panic" THEN "Panic" ELSE "Err",
                  out |-> Flatten(SubSeq(evs, 1, k - 1)),
                  n   |-> k - 1]

---------------------------------------------------------------------------
(* lib.rs: byte_wrapper! *)

Kinds == {"CsiParam", "CsiInter", "CsiFinal", "DcsChar", "SosChar",
          "FormatEffector", "Printable"}

\* a variant of Pattern whose SosChar gap for 0x9c sits one byte too high
Pattern_sos_gap(K, b) ==
    CASE K = "CsiParam"       -> b \in 48..63
      [] K = "CsiInter"       -> b \in 32..47
      [] K = "CsiFinal"       -> b \in 64..126
      [] K = "DcsChar"        -> b \in 8..13 \/ b \in 32..126
      [] K = "SosChar"        -> b \in 0..150 \/ b \in 152..156 \/ b \in 158..U8Max
      [] K = "FormatEffector" -> b \in 8..13
      [] K = "Printable"      -> b \in 32..126

\* a variant of Pattern whose DcsChar range ends at 0xfe instead of 0x7e
Pattern_dcs_wide(K, b) ==
    CASE K = "CsiParam"       -> b \in 48..63
      [] K = "CsiInter"       -> b \in 32..47
      [] K = "CsiFinal"       -> b \in 64..126
      [] K = "DcsChar"        -> b \in 8..13 \/ b \in 32..254
      [] K = "SosChar"        -> b \in 0..150 \/ b \in 152..155 \/ b \in 157..U8Max
      [] K = "FormatEffector" -> b \in 8..13
      [] K = "Printable"      -> b \in 32..126

\* the `for $ptn =>` pattern of each byte_wrapper! instantiation
Pattern(K, b) ==
    CASE K = "CsiParam"       -> b \in 48..63
      [] K = "CsiInter"       -> b \in 32..47
      [] K = "CsiFinal"       -> b \in 64..126
      [] K = "DcsChar"        -> b \in 8..13 \/ b \in 32..126
      [] K = "SosChar"        -> b \in 0..150 \/ b \in 152..155 \/ b \in 157..U8Max
      [] K = "FormatEffector" -> b \in 8..13
      [] K = "Printable"      -> b \in 32..126

None == <<>>
Some(v) == <<v>>
IsSome(o) == Len(o) = 1

\* Self(byte)
Wrap(K, b) == <<K, b>>


\* a variant of new whose ranges exclude their last byte (`..` for `..=`)
new_exclusive(K, b) ==
    IF Pattern(K, b) /\ b < U8Max /\ Pattern(K, b + 1)
    THEN Some(Wrap(K, b)) ELSE None

new(K, b) == IF Pattern(K, b) THEN Some(Wrap(K, b)) ELSE None

new_unchecked(K, b) == Wrap(K, b)

is_byte_valid(K, b) == IF Pattern(K, b) THEN TRUE ELSE FALSE

byte(v) == v[2]

slice_as_bytes(slice) == [i \in 1..Len(slice) |-> byte(slice[i])]

slice_from_bytes_unchecked(K, bytes) ==
    [i \in 1..Len(bytes) |-> Wrap(K, bytes[i])]

Ok(v) == <<"Ok", v>>
Err(e) == <<"Err", e>>


\* a variant of slice_from_bytes that reports the position counted from one
slice_from_bytes_one_based(K, bytes) ==
    LET Bad == {i \in 1..Len(bytes) : ~is_byte_valid(K, bytes[i])}
    IN  IF Bad # {}
        THEN Err(Min(Bad))
        ELSE Ok(slice_from_bytes_unchecked(K, bytes))

\* find_map over enumerate(): the index (zero-based) of the first invalid byte
slice_from_bytes(K, bytes) ==
    LET Bad == {i \in 1..Len(bytes) : ~is_byte_valid(K, bytes[i])}
    IN  IF Bad # {}
        THEN Err(Min(Bad) - 1)
        ELSE Ok(slice_from_bytes_unchecked(K, bytes))

\* the slices of kind K that safe code can hold
ValidSlices(K) ==
    {slice_from_bytes(K, bs)[2] :
        bs \in {x \in SeqsUpTo(ByteSamples, MaxLen) :
                    slice_from_bytes(K, x)[1] = "Ok"}}

---------------------------------------------------------------------------
(* csi.rs *)

\* Csi::write_begin
write_begin == <<W(Chr(ESC)), W(Chr(INTRO_BYTE))>>

\* byte_utf8able!: slice_as_str / as_str, the bytes read as UTF-8 text
slice_as_str(slice) == slice_as_bytes(slice)
as_str(v) == Chr(byte(v))

\* byte_utf8able!: as_char, the byte taken as a code point
as_char(v) == byte(v)

\* the kinds byte_utf8able! is instantiated for
Utf8able == {"CsiParam", "CsiInter", "CsiFinal", "DcsChar"}

\* the Csi values safe code can build
CsiValues ==
    {[parameter_bytes |-> p, intermediate_bytes |-> i, final_byte |-> f] :
        p \in ValidSlices("CsiParam"),
        i \in ValidSlices("CsiInter"),
        f \in {new("CsiFinal", b)[1] : b \in {x \in ByteSamples : IsSome(new("CsiFinal", x))}}}

\* impl Display for Csi
fmt_Csi(c) ==
    <<W(Chr(ESC)), W(Chr(INTRO_BYTE)),
      W(slice_as_str(c.parameter_bytes)),
      W(slice_as_str(c.intermediate_bytes)),
      W(as_str(c.final_byte))>>

---------------------------------------------------------------------------
(* sgr.rs *)

\* the payload-free variants of enum Sgr, in declaration order
SgrPlain ==
    <<"Reset", "WeightBoldOn", "WeightThinOn", "ItalicOn", "UnderlineSingle",
      "BlinkSlow", "BlinkRapid", "Invert", "ConcealOn", "StrikethroughOn",
      "FontPrimary", "Font1", "Font2", "Font3", "Font4", "Font5", "Font6",
      "Font7", "Font8", "Font9", "Fraktur", "UnderlineDouble", "WeightAllOff",
      "ItalicOff", "UnderlineNone", "BlinkNone", "ProportionalSpacingOn",
      "ReversedOff", "ConcealOff", "StrikethroughOff",
      "Foreground1", "Foreground2", "Foreground3", "Foreground4",
      "Foreground5", "Foreground6", "Foreground7", "Foreground8",
      "ForegroundDefault",
      "Background1", "Background2", "Background3", "Background4",
      "Background5", "Background6", "Background7", "Background8",
      "BackgroundDefault", "ProportionalSpacingOff", "FrameFramed",
      "FrameEncircled", "OverlinedOn", "FrameNone", "OverlinedOff",
      "UnderlineColorDefault">>

SgrWithColor == {"Foreground", "Background", "UnderlineColor"}

\* enum SgrColor
SgrColors ==
    {<<"Table", n>> : n \in U8Samples}
        \cup {<<"Rgb", 1, 2, 3>>, <<"Rgb", 255, 0, 128>>, <<"Rgb", 0, 10, 99>>}

\* enum Sgr: <<variant>> or <<variant, color>>
SgrValues ==
    {<<SgrPlain[i]>> : i \in 1..Len(SgrPlain)}
        \cup {<<v, c>> : v \in SgrWithColor, c \in SgrColors}

\* impl Display for SgrColor: write!(f, "5;{n}") / write!(f, "2;{r};{g};{b}")
fmt_SgrColor(c) ==
    IF c[1] = "Table"
    THEN <<W(<<Digit(5), SEMI>>), W(Dec(c[2]))>>
    ELSE <<W(<<Digit(2), SEMI>>), W(Dec(c[2])), W(Chr(SEMI)), W(Dec(c[3])),
           W(Chr(SEMI)), W(Dec(c[4]))>>

\* the string literal of each payload-free arm of Sgr::write_params_to
SgrLiteral(v) ==
    CASE v = "Reset" -> D1(0)
      [] v = "WeightBoldOn" -> D1(1)
      [] v = "WeightThinOn" -> D1(2)
      [] v = "ItalicOn" -> D1(3)
      [] v = "UnderlineSingle" -> D1(4)
      [] v = "BlinkSlow" -> D1(5)
      [] v = "BlinkRapid" -> D1(6)
      [] v = "Invert" -> D1(7)
      [] v = "ConcealOn" -> D1(8)
      [] v = "StrikethroughOn" -> D1(9)
      [] v = "FontPrimary" -> D2(1, 0)
      [] v = "Font1" -> D2(1, 1)
      [] v = "Font2" -> D2(1, 2)
      [] v = "Font3" -> D2(1, 3)
      [] v = "Font4" -> D2(1, 4)
      [] v = "Font5" -> D2(1, 5)
      [] v = "Font6" -> D2(1, 6)
      [] v = "Font7" -> D2(1, 7)
      [] v = "Font8" -> D2(1, 8)
      [] v = "Font9" -> D2(1, 9)
      [] v = "Fraktur" -> D2(2, 0)
      [] v = "UnderlineDouble" -> D2(2, 1)
      [] v = "WeightAllOff" -> D2(2, 2)
      [] v = "ItalicOff" -> D2(2, 3)
      [] v = "UnderlineNone" -> D2(2, 4)
      [] v = "BlinkNone" -> D2(2, 5)
      [] v = "ProportionalSpacingOn" -> D2(2, 6)
      [] v = "ReversedOff" -> D2(2, 7)
      [] v = "ConcealOff" -> D2(2, 8)
      [] v = "StrikethroughOff" -> D2(2, 9)
      [] v = "Foreground1" -> D2(3, 0)
      [] v = "Foreground2" -> D2(3, 1)
      [] v = "Foreground3" -> D2(3, 2)
      [] v = "Foreground4" -> D2(3, 3)
      [] v = "Foreground5" -> D2(3, 4)
      [] v = "Foreground6" -> D2(3, 5)
      [] v = "Foreground7" -> D2(3, 6)
      [] v = "Foreground8" -> D2(3, 7)
      [] v = "ForegroundDefault" -> D2(3, 9)
      [] v = "Background1" -> D2(4, 0)
      [] v = "Background2" -> D2(4, 1)
      [] v = "Background3" -> D2(4, 2)
      [] v = "Background4" -> D2(4, 3)
      [] v = "Background5" -> D2(4, 4)
      [] v = "Background6" -> D2(4, 5)
      [] v = "Background7" -> D2(4, 6)
      [] v = "Background8" -> D2(4, 7)
      [] v = "BackgroundDefault" -> D2(4, 9)
      [] v = "ProportionalSpacingOff" -> D2(5, 0)
      [] v = "FrameFramed" -> D2(5, 1)
      [] v = "FrameEncircled" -> D2(5, 2)
      [] v = "OverlinedOn" -> D2(5, 3)
      [] v = "FrameNone" -> D2(5, 4)
      [] v = "OverlinedOff" -> D2(5, 5)
      [] v = "UnderlineColorDefault" -> D2(5, 9)


\* a variant of write_params_to with the 38 / 48 selectors transposed
write_params_to_transposed(s) ==
    CASE s[1] = "Foreground" ->
            <<W(D2(4, 8) \o Chr(SEMI))>> \o fmt_SgrColor(s[2])
      [] s[1] = "Background" ->
            <<W(D2(3, 8) \o Chr(SEMI))>> \o fmt_SgrColor(s[2])
      [] s[1] = "UnderlineColor" ->
            <<W(D2(5, 8) \o Chr(SEMI))>> \o fmt_SgrColor(s[2])
      [] OTHER -> <<W(SgrLiteral(s[1]))>>

\* Sgr::write_params_to
write_params_to(s) ==
    CASE s[1] = "Foreground" ->
            <<W(D2(3, 8) \o Chr(SEMI))>> \o fmt_SgrColor(s[2])
      [] s[1] = "Background" ->
            <<W(D2(4, 8) \o Chr(SEMI))>> \o fmt_SgrColor(s[2])
      [] s[1] = "UnderlineColor" ->
            <<W(D2(5, 8) \o Chr(SEMI))>> \o fmt_SgrColor(s[2])
      [] OTHER -> <<W(SgrLiteral(s[1]))>>

\* impl Display for Sgr
fmt_Sgr(s) == write_begin \o write_params_to(s) \o <<W(Chr(FINAL_BYTE))>>

---------------------------------------------------------------------------
(* fe_seq.rs *)

\* the payload-free variants of enum FeSeq
FePlain ==
    {"Pad", "HighOctetPreset", "BreakPermittedHere", "NoBreakHere", "Index",
     "NextLine", "StartOfSelArea", "EndOfSelArea", "HorizTabSet",
     "RightJustify", "VertTabSet", "PartLineDown", "PartLineUp",
     "ReverseIndex", "SingleShift2", "SingleShift3", "PrivateUse1",
     "PrivateUse2", "SetTransmitState", "CancelCharacter", "MessageWaiting",
     "StartOfProtArea", "EndOfProtArea", "Sgci", "Sci", "StringTerminator"}

\* the variants that carry a body slice
FeFramed ==
    {"DeviceControlString", "StartOfString", "OsCommand", "PrivacyMessage",
     "AppProgramCommand"}

\* the byte-range kind of each framed variant's body
BodyKind(v) ==
    CASE v = "DeviceControlString" -> "DcsChar"
      [] v = "StartOfString" -> "SosChar"
      [] v \in {"OsCommand", "PrivacyMessage", "AppProgramCommand"} -> "Printable"

\* enum FeSeq: <<variant>>, <<variant, body>> or <<"Csi", csi>>
FeValues ==
    {<<v>> : v \in FePlain}
        \cup UNION {{<<v, body>> : body \in ValidSlices(BodyKind(v))} : v \in FeFramed}
        \cup {<<"Csi", c>> : c \in CsiValues}

\* FeSeq::kind_byte
kind_byte(fe) ==
    CASE fe[1] = "Pad" -> 128
      [] fe[1] = "HighOctetPreset" -> 129
      [] fe[1] = "BreakPermittedHere" -> 130
      [] fe[1] = "NoBreakHere" -> 131
      [] fe[1] = "Index" -> 132
      [] fe[1] = "NextLine" -> 133
      [] fe[1] = "StartOfSelArea" -> 134
      [] fe[1] = "EndOfSelArea" -> 135
      [] fe[1] = "HorizTabSet" -> 136
      [] fe[1] = "RightJustify" -> 137
      [] fe[1] = "VertTabSet" -> 138
      [] fe[1] = "PartLineDown" -> 139
      [] fe[1] = "PartLineUp" -> 140
      [] fe[1] = "ReverseIndex" -> 141
      [] fe[1] = "SingleShift2" -> 142
      [] fe[1] = "SingleShift3" -> 143
      [] fe[1] = "DeviceControlString" -> 144
      [] fe[1] = "PrivateUse1" -> 145
      [] fe[1] = "PrivateUse2" -> 146
      [] fe[1] = "SetTransmitState" -> 147
      [] fe[1] = "CancelCharacter" -> 148
      [] fe[1] = "MessageWaiting" -> 149
      [] fe[1] = "StartOfProtArea" -> 150
      [] fe[1] = "EndOfProtArea" -> 151
      [] fe[1] = "StartOfString" -> 151
      [] fe[1] = "Sgci" -> 153
      [] fe[1] = "Sci" -> 154
      [] fe[1] = "Csi" -> INTRO_BYTE
      [] fe[1] = "StringTerminator" -> 156
      [] fe[1] = "OsCommand" -> 157
      [] fe[1] = "PrivacyMessage" -> 158
      [] fe[1] = "AppProgramCommand" -> 159

\* FeSeq::write_to
RECURSIVE write_to(_)
write_to(fe) ==
    <<W(Chr(ESC)), W(<<kind_byte(fe)>>)>> \o
    CASE fe[1] \in FeFramed ->
            <<W(slice_as_bytes(fe[2]))>> \o write_to(<<"StringTerminator">>)
      [] fe[1] = "Csi" -> fmt_Csi(fe[2])
      [] OTHER -> <<>>

\* impl From<Printable> for DcsChar and impl From<FormatEffector> for DcsChar
DcsChar_from(value) == new_unchecked("DcsChar", byte(value))

---------------------------------------------------------------------------
(* helpers.rs *)

\* i8::MIN
I8Min == -128

\* the i8 deltas and the NonZeroU8 coordinates movements are drawn from
I8Samples == {I8Min, -127, -10, -1, 0, 1, 9, 127}
NonZeroU8Samples == {1, 9, 10, 255}

\* i8::abs: |d|, which does not exist for i8::MIN; the wrapped result is
\* i8::MIN itself, and a build with overflow checks panics instead
AbsOverflows(d) == d = I8Min
i8_abs(d) == IF d = I8Min THEN I8Min ELSE IF d < 0 THEN -d ELSE d

\* core::fmt::Display for i8: the sign, then the magnitude
fmt_i8(n) == IF n < 0 THEN <<W(Chr(45)), W(Dec(-n))>> ELSE <<W(Dec(n))>>

\* move_cursor_delta
move_cursor_delta(neg, pos, delta, overflow_checks) ==
    write_begin \o
    IF overflow_checks /\ AbsOverflows(delta)
    THEN <<Panic>>
    ELSE fmt_i8(i8_abs(delta)) \o <<W(Chr(IF delta < 0 THEN neg ELSE pos))>>

EraseDisplayValues == {"CurToEnd", "CurToBegin", "All", "XtermAllNoScrollback"}
EraseLineValues == {"CurToEnd", "CurToBegin", "All"}

\* impl Display for EraseDisplay
fmt_EraseDisplay(e) ==
    write_begin \o
    <<W(CASE e = "CurToEnd" -> D1(0)
          [] e = "CurToBegin" -> D1(1)
          [] e = "All" -> D1(2)
          [] e = "XtermAllNoScrollback" -> D1(3)),
      W(Chr(74))>>

\* impl Display for EraseLine
fmt_EraseLine(e) ==
    write_begin \o
    <<W(CASE e = "CurToEnd" -> D1(0)
          [] e = "CurToBegin" -> D1(1)
          [] e = "All" -> D1(2)),
      W(Chr(75))>>

\* enum Movement: <<"Relative", rows, columns>> or <<"Absolute", row, column>>
MovementValues ==
    {<<"Relative", r, c>> :
        r \in {None} \cup {Some(d) : d \in I8Samples},
        c \in {None} \cup {Some(d) : d \in I8Samples}}
    \cup {<<"Absolute", r, c>> : r \in NonZeroU8Samples, c \in NonZeroU8Samples}

\* impl Display for Movement
fmt_Movement(m, overflow_checks) ==
    IF m[1] = "Relative"
    THEN (IF IsSome(m[2])
          THEN move_cursor_delta(65, 66, m[2][1], overflow_checks) ELSE <<>>)
         \o
         (IF IsSome(m[3])
          THEN move_cursor_delta(68, 67, m[3][1], overflow_checks) ELSE <<>>)
    ELSE write_begin \o
         <<W(Dec(m[2])), W(Chr(SEMI)), W(Dec(m[3]))>> \o
         <<W(Chr(74))>>

Weights == {"Bold", "Thin", "Regular"}
Underlines == {"Single", "Double", "None"}
Italics == {"Off", "On"}
Strikethroughs == {"Off", "On"}

\* enum Color
Colors == {<<"Reset">>, <<"Table", 4>>, <<"Table", 200>>, <<"Rgb", 1, 2, 3>>}

\* Weight::into_sgr
Weight_into_sgr(x) ==
    CASE x = "Bold" -> <<"WeightBoldOn">>
      [] x = "Thin" -> <<"WeightThinOn">>
      [] x = "Regular" -> <<"WeightAllOff">>

\* Underline::into_sgr (the same match is inlined in Display for StateChange)
Underline_into_sgr(x) ==
    CASE x = "None" -> <<"UnderlineNone">>
      [] x = "Single" -> <<"UnderlineSingle">>
      [] x = "Double" -> <<"UnderlineDouble">>

\* Italic::into_sgr
Italic_into_sgr(x) ==
    CASE x = "On" -> <<"ItalicOn">>
      [] x = "Off" -> <<"ItalicOff">>

\* Strikethrough::into_sgr
Strikethrough_into_sgr(x) ==
    CASE x = "On" -> <<"StrikethroughOn">>
      [] x = "Off" -> <<"StrikethroughOff">>

\* Color::into_foreground
into_foreground(c) ==
    IF c[1] = "Reset" THEN <<"ForegroundDefault">> ELSE <<"Foreground", c>>

\* Color::into_background
into_background(c) ==
    IF c[1] = "Reset" THEN <<"BackgroundDefault">> ELSE <<"Background", c>>

\* StateChange::new
StateChange_new ==
    [weight |-> None, italic |-> None, underline |-> None,
     strikethrough |-> None, foreground |-> None, background |-> None]


\* a variant of opt_replace_some that keeps the old value
opt_replace_some_kept(option, value) ==
    IF IsSome(option) THEN option ELSE None

opt_replace_some(option, value) ==
    IF IsSome(option) THEN Some(value) ELSE None

\* StateChange::resetter
resetter(self) ==
    [weight        |-> opt_replace_some(self.weight, "Regular"),
     italic        |-> opt_replace_some(self.italic, "Off"),
     underline     |-> opt_replace_some(self.underline, "None"),
     strikethrough |-> opt_replace_some(self.strikethrough, "Off"),
     foreground    |-> opt_replace_some(self.foreground, <<"Reset">>),
     background    |-> opt_replace_some(self.background, <<"Reset">>)]

with_weight(self, x) == [self EXCEPT !.weight = Some(x)]
with_italic(self, x) == [self EXCEPT !.italic = Some(x)]
with_underline(self, x) == [self EXCEPT !.underline = Some(x)]
with_strikethrough(self, x) == [self EXCEPT !.strikethrough = Some(x)]
with_foreground(self, x) == [self EXCEPT !.foreground = Some(x)]
with_background(self, x) == [self EXCEPT !.background = Some(x)]


\* a variant of the weight block that sets the weight without clearing first
fmt_weight_no_clear(weight) ==
    CASE weight = "Bold" -> write_params_to(<<"WeightBoldOn">>)
      [] weight = "Thin" -> write_params_to(<<"WeightThinOn">>)
      [] weight = "Regular" -> write_params_to(<<"WeightAllOff">>)

\* the weight block of Display for StateChange
fmt_weight(weight) ==
    CASE weight = "Bold" ->
            write_params_to(<<"WeightAllOff">>) \o <<W(Chr(SEMI))>>
                \o write_params_to(<<"WeightBoldOn">>)
      [] weight = "Thin" ->
            write_params_to(<<"WeightAllOff">>) \o <<W(Chr(SEMI))>>
                \o write_params_to(<<"WeightThinOn">>)
      [] weight = "Regular" -> write_params_to(<<"WeightAllOff">>)

\* `if is_first { f.write_str(";")?; ... }`
sep_if(is_first) == IF is_first THEN <<W(Chr(SEMI))>> ELSE <<>>

\* impl Display for StateChange; f1..f4 are the values of the local is_first
\* after the italic, underline, strikethrough and foreground blocks
fmt_StateChange(self) ==
    LET e_weight == IF IsSome(self.weight) THEN fmt_weight(self.weight[1]) ELSE <<>>
        f0 == TRUE
        e_italic ==
            IF IsSome(self.italic)
            THEN sep_if(f0) \o write_params_to(Italic_into_sgr(self.italic[1]))
            ELSE <<>>
        f1 == IF IsSome(self.italic) THEN FALSE ELSE f0
        e_underline ==
            IF IsSome(self.underline)
            THEN sep_if(f1) \o write_params_to(Underline_into_sgr(self.underline[1]))
            ELSE <<>>
        f2 == IF IsSome(self.underline) THEN FALSE ELSE f1
        e_strike ==
            IF IsSome(self.strikethrough)
            THEN sep_if(f2)
                    \o write_params_to(Strikethrough_into_sgr(self.strikethrough[1]))
            ELSE <<>>
        f3 == IF IsSome(self.strikethrough) THEN FALSE ELSE f2
        e_fg ==
            IF IsSome(self.foreground)
            THEN sep_if(f3) \o write_params_to(into_foreground(self.foreground[1]))
            ELSE <<>>
        f4 == IF IsSome(self.foreground) THEN FALSE ELSE f3
        e_bg ==
            IF IsSome(self.background)
            THEN sep_if(f4) \o write_params_to(into_background(self.background[1]))
            ELSE <<>>
    IN  write_begin \o e_weight \o e_italic \o e_underline \o e_strike
            \o e_fg \o e_bg \o <<W(Chr(FINAL_BYTE))>>

---------------------------------------------------------------------------
(* State machine *)

NoSink == [reliable |-> TRUE, cap |-> 0]

Init ==
    /\ sc = StateChange_new
    /\ op = "none"
    /\ arg = <<>>
    /\ sink = NoSink
    /\ out = <<>>
    /\ ret = <<>>

\* no call made and no builder chain begun: the operations that take no
\* StateChange start from here (they neither read nor write sc)
Idle == op = "none" /\ sc = StateChange_new

\* a call of a pure function: records the argument and the returned value
Call(name, a, r) ==
    /\ op' = name
    /\ arg' = a
    /\ ret' = r
    /\ UNCHANGED <<sc, sink, out>>

CallNew ==
    /\ Idle
    /\ \E K \in Kinds, b \in Byte : Call("new", <<K, b>>, new(K, b))

CallIsByteValid ==
    /\ Idle
    /\ \E K \in Kinds, b \in Byte :
            Call("is_byte_valid", <<K, b>>, is_byte_valid(K, b))

CallSliceFromBytes ==
    /\ Idle
    /\ \E K \in Kinds, bs \in SeqsUpTo(ByteSamples, MaxLen) :
            Call("slice_from_bytes", <<K, bs>>, slice_from_bytes(K, bs))

\* the projections exist for the kinds of Utf8able only, on values built by new
CallAsStr ==
    /\ Idle
    /\ \E K \in Utf8able, b \in Byte :
            /\ IsSome(new(K, b))
            /\ Call("as_str", new(K, b)[1], as_str(new(K, b)[1]))

CallAsChar ==
    /\ Idle
    /\ \E K \in Utf8able, b \in Byte :
            /\ IsSome(new(K, b))
            /\ Call("as_char", new(K, b)[1], as_char(new(K, b)[1]))

CallSliceAsStr ==
    /\ Idle
    /\ \E K \in Utf8able : \E slice \in ValidSlices(K) :
            Call("slice_as_str", <<K, slice>>, slice_as_str(slice))

\* DcsChar::from(value) for a Printable or a FormatEffector built by new
CallDcsCharFrom ==
    /\ Idle
    /\ \E K \in {"Printable", "FormatEffector"}, b \in Byte :
            /\ IsSome(new(K, b))
            /\ Call("DcsChar_from", new(K, b)[1], DcsChar_from(new(K, b)[1]))

\* a call of a serializer on a fresh sink s: runs its effects
Serialize(name, a, evs, s) ==
    LET r == Run(evs, s)
    IN  /\ op' = name
        /\ arg' = a
        /\ sink' = s
        /\ out' = r.out
        /\ ret' = r.ret
        /\ UNCHANGED sc

FmtSgr ==
    /\ Idle
    /\ \E s \in SgrValues, k \in Sinks : Serialize("fmt_Sgr", s, fmt_Sgr(s), k)

FmtCsi ==
    /\ Idle
    /\ \E c \in CsiValues, k \in Sinks : Serialize("fmt_Csi", c, fmt_Csi(c), k)

CallKindByte ==
    /\ Idle
    /\ \E fe \in FeValues : Call("kind_byte", fe, kind_byte(fe))

FeWriteTo ==
    /\ Idle
    /\ \E fe \in FeValues, k \in Sinks :
            Serialize("write_to", fe, write_to(fe), k)

FmtEraseDisplay ==
    /\ Idle
    /\ \E e \in EraseDisplayValues, k \in Sinks :
            Serialize("fmt_EraseDisplay", e, fmt_EraseDisplay(e), k)

FmtEraseLine ==
    /\ Idle
    /\ \E e \in EraseLineValues, k \in Sinks :
            Serialize("fmt_EraseLine", e, fmt_EraseLine(e), k)

\* the build either checks arithmetic overflow (debug) or wraps (release)
FmtMovement ==
    /\ Idle
    /\ \E m \in MovementValues, checks \in BOOLEAN, k \in Sinks :
            Serialize("fmt_Movement", [m |-> m, overflow_checks |-> checks],
                      fmt_Movement(m, checks), k)

\* the builder chain: StateChange::new().with_...(x)
WithWeight ==
    /\ op = "none"
    /\ \E x \in Weights : sc' = with_weight(sc, x)
    /\ UNCHANGED <<op, arg, sink, out, ret>>

WithItalic ==
    /\ op = "none"
    /\ \E x \in Italics : sc' = with_italic(sc, x)
    /\ UNCHANGED <<op, arg, sink, out, ret>>

WithUnderline ==
    /\ op = "none"
    /\ \E x \in Underlines : sc' = with_underline(sc, x)
    /\ UNCHANGED <<op, arg, sink, out, ret>>

WithStrikethrough ==
    /\ op = "none"
    /\ \E x \in Strikethroughs : sc' = with_strikethrough(sc, x)
    /\ UNCHANGED <<op, arg, sink, out, ret>>

WithForeground ==
    /\ op = "none"
    /\ \E x \in Colors : sc' = with_foreground(sc, x)
    /\ UNCHANGED <<op, arg, sink, out, ret>>

WithBackground ==
    /\ op = "none"
    /\ \E x \in Colors : sc' = with_background(sc, x)
    /\ UNCHANGED <<op, arg, sink, out, ret>>

\* s.resetter(): takes &self, returns a new value
CallResetter ==
    /\ op = "none"
    /\ Call("resetter", sc, resetter(sc))

FmtStateChange ==
    /\ op = "none"
    /\ \E k \in Sinks :
            Serialize("fmt_StateChange", sc, fmt_StateChange(sc), k)

\* the statement ends: every value is dropped
Restart ==
    /\ op # "none"
    /\ sc' = StateChange_new
    /\ op' = "none"
    /\ arg' = <<>>
    /\ sink' = NoSink
    /\ out' = <<>>
    /\ ret' = <<>>

Next ==
    \/ CallNew
    \/ CallIsByteValid
    \/ CallSliceFromBytes
    \/ CallAsStr
    \/ CallAsChar
    \/ CallSliceAsStr
    \/ CallDcsCharFrom
    \/ FmtSgr
    \/ FmtCsi
    \/ CallKindByte
    \/ FeWriteTo
    \/ FmtEraseDisplay
    \/ FmtEraseLine
    \/ FmtMovement
    \/ WithWeight
    \/ WithItalic
    \/ WithUnderline
    \/ WithStrikethrough
    \/ WithForeground
    \/ WithBackground
    \/ CallResetter
    \/ FmtStateChange
    \/ Restart

Spec == Init /\ [][Next]_vars

---------------------------------------------------------------------------
(* Vocabulary of the properties *)

\* the text a serializer writes to a sink that never fails
Text(evs) == Flatten(evs)

\* the CSI introducer ESC '['
CsiPrefix == <<27, 91>>

\* the fields of a StateChange, in serialization order
Fields == <<"weight", "italic", "underline", "strikethrough", "foreground",
            "background">>

IsDigit(c) == c \in 48..57

RECURSIVE DigitsValue(_)
DigitsValue(ds) ==
    IF ds = <<>> THEN 0
    ELSE 10 * DigitsValue(SubSeq(ds, 1, Len(ds) - 1)) + (ds[Len(ds)] - 48)

\* text is the decimal numeral of n, without sign and without leading zeros
IsDecimal(text, n) ==
    /\ Len(text) >= 1
    /\ \A i \in 1..Len(text) : IsDigit(text[i])
    /\ Len(text) = 1 \/ text[1] # 48
    /\ DigitsValue(text) = n

\* the parameters of a parameter string: its pieces between the ';'
RECURSIVE Split(_)
Split(text) ==
    LET Semis == {i \in 1..Len(text) : text[i] = 59}
    IN  IF Semis = {} THEN <<text>>
        ELSE LET i == Min(Semis)
             IN  <<SubSeq(text, 1, i - 1)>> \o Split(SubSeq(text, i + 1, Len(text)))

\* the parameter string whose parameters are the numbers ns
RECURSIVE JoinNumbers(_)
JoinNumbers(ns) ==
    IF ns = <<>> THEN <<>>
    ELSE IF Len(ns) = 1 THEN Dec(ns[1])
    ELSE Dec(ns[1]) \o <<59>> \o JoinNumbers(Tail(ns))

\* text is the parameter string of the numbers ns, each in decimal
IsParams(text, ns) ==
    IF ns = <<>> THEN text = <<>>
    ELSE LET ps == Split(text)
         IN  /\ Len(ps) = Len(ns)
             /\ \A i \in 1..Len(ns) : IsDecimal(ps[i], ns[i])

\* part occurs in text as a run of consecutive bytes
Occurs(part, text) ==
    \E i \in 1..(Len(text) - Len(part) + 1) :
        SubSeq(text, i, i + Len(part) - 1) = part

StartsWith(text, head) ==
    Len(text) >= Len(head) /\ SubSeq(text, 1, Len(head)) = head

\* the numeric parameters a colour stands for after the 38 / 48 selector
ColorNumbers(c) ==
    IF c[1] = "Table" THEN <<5, c[2]>> ELSE <<2, c[2], c[3], c[4]>>

\* the numeric SGR parameters each StateChange field stands for
FieldNumbers(f, v) ==
    CASE f = "weight" ->
            (CASE v = "Bold" -> <<22, 1>> [] v = "Thin" -> <<22, 2>>
               [] v = "Regular" -> <<22>>)
      [] f = "italic" -> (IF v = "On" THEN <<3>> ELSE <<23>>)
      [] f = "underline" ->
            (CASE v = "Single" -> <<4>> [] v = "Double" -> <<21>>
               [] v = "None" -> <<24>>)
      [] f = "strikethrough" -> (IF v = "On" THEN <<9>> ELSE <<29>>)
      [] f = "foreground" ->
            (IF v[1] = "Reset" THEN <<39>> ELSE <<38>> \o ColorNumbers(v))
      [] f = "background" ->
            (IF v[1] = "Reset" THEN <<49>> ELSE <<48>> \o ColorNumbers(v))

\* the numeric parameters of the set fields among Fields[i..6], in order
RECURSIVE NumbersFrom(_, _)
NumbersFrom(s, i) ==
    IF i > Len(Fields) THEN <<>>
    ELSE (IF IsSome(s[Fields[i]]) THEN FieldNumbers(Fields[i], s[Fields[i]][1])
          ELSE <<>>) \o NumbersFrom(s, i + 1)

Displayed(name) == op = name /\ ret = "Ok"

---------------------------------------------------------------------------
(* Properties *)

\* C1: for every StateChange, Display writes ESC '[', then the parameters of
\* the set fields in the order weight, italic, underline, strikethrough,
\* foreground, background with exactly one ';' between consecutive
\* parameters (none leading, none trailing, none missing), then 'm'.
C1_DisplayJoinsSetFields ==
    Displayed("fmt_StateChange") =>
        /\ StartsWith(out, CsiPrefix)
        /\ Len(out) >= 3
        /\ out[Len(out)] = 109
        /\ IsParams(SubSeq(out, 3, Len(out) - 1), NumbersFrom(arg, 1))

\* C2: when the weight is set, the text right after ESC '[' is 22, followed
\* by ";1" for Bold, ";2" for Thin and no weight-on parameter for Regular;
\* the parameter of every other set field comes after the weight parameters;
\* with exactly one further field set the whole text is ESC '[' weight ';'
\* field 'm'.
C2_WeightClearedFirst ==
    (Displayed("fmt_StateChange") /\ IsSome(arg.weight)) =>
        LET wtext == JoinNumbers(FieldNumbers("weight", arg.weight[1]))
            head  == CsiPrefix \o wtext
            rest  == SubSeq(out, Len(head) + 1, Len(out))
            Others == {i \in 2..Len(Fields) : IsSome(arg[Fields[i]])}
        IN  /\ StartsWith(out, head)
            /\ Others = {} => rest = <<109>>
            /\ Others # {} =>
                /\ rest[1] = 59
                /\ rest[Len(rest)] = 109
                /\ \A i \in Others :
                      Occurs(JoinNumbers(FieldNumbers(Fields[i], arg[Fields[i]][1])),
                             SubSeq(rest, 2, Len(rest) - 1))
            /\ (arg.weight[1] = "Regular" /\ Others # {}) =>
                Split(SubSeq(rest, 2, Len(rest) - 1))[1] \notin {<<49>>, <<50>>}
            /\ Cardinality(Others) = 1 =>
                out = CsiPrefix \o JoinNumbers(NumbersFrom(arg, 1)) \o <<109>>

\* C2's case: with_foreground(Color::Table(4)).with_weight(Weight::Bold)
\* has been displayed as ESC[22;1;38;5;4m
C2_Witness ==
    /\ Displayed("fmt_StateChange")
    /\ arg = with_weight(with_foreground(StateChange_new, <<"Table", 4>>), "Bold")
    /\ out = <<27, 91, 50, 50, 59, 49, 59, 51, 56, 59, 53, 59, 52, 109>>

\* the neutral value of each StateChange field
Neutral(f) ==
    CASE f = "weight" -> "Regular"
      [] f = "italic" -> "Off"
      [] f = "underline" -> "None"
      [] f = "strikethrough" -> "Off"
      [] f \in {"foreground", "background"} -> <<"Reset">>

\* C3: s.resetter() has each field set exactly when it is set in s, every
\* set field holds its neutral value, and s itself is unchanged.
C3_ResetterNeutralises ==
    op = "resetter" =>
        /\ \A i \in 1..Len(Fields) :
              LET f == Fields[i]
              IN  /\ IsSome(ret[f]) <=> IsSome(arg[f])
                  /\ IsSome(arg[f]) => ret[f] = Some(Neutral(f))
                  /\ ~IsSome(arg[f]) => ret[f] = None
        /\ sc = arg

\* C3's case: resetter called on a value with non-neutral set fields and an
\* unset field
C3_Witness ==
    /\ op = "resetter"
    /\ arg.weight = Some("Bold")
    /\ arg.foreground = Some(<<"Rgb", 1, 2, 3>>)
    /\ arg.italic = None
    /\ ret.weight = Some("Regular")
    /\ ret.foreground = Some(<<"Reset">>)
    /\ ret.italic = None

\* the ranges the CSI kinds declare
DeclaredRange(K) ==
    CASE K = "CsiParam" -> 48..63
      [] K = "CsiInter" -> 32..47
      [] K = "CsiFinal" -> 64..126

\* C4: for every byte b and kind K, is_byte_valid(b) is true exactly when
\* new(b) is Some, and then new(b).byte() = b; for the CSI kinds this is
\* exactly on 0x30..=0x3F, 0x20..=0x2F and 0x40..=0x7E.
C4_NewAgreesWithIsByteValid ==
    /\ op = "new" =>
        /\ IsSome(ret) <=> is_byte_valid(arg[1], arg[2])
        /\ IsSome(ret) => byte(ret[1]) = arg[2]
        /\ arg[1] \in {"CsiParam", "CsiInter", "CsiFinal"} =>
              (IsSome(ret) <=> arg[2] \in DeclaredRange(arg[1]))
    /\ op = "is_byte_valid" =>
        /\ ret <=> IsSome(new(arg[1], arg[2]))
        /\ arg[1] \in {"CsiParam", "CsiInter", "CsiFinal"} =>
              (ret <=> arg[2] \in DeclaredRange(arg[1]))

\* C4's case: new accepted the last byte of CsiFinal's range
C4_Witness ==
    /\ op = "new"
    /\ arg = <<"CsiFinal", 126>>
    /\ IsSome(ret)
    /\ byte(ret[1]) = 126

\* C5: slice_from_bytes is Ok exactly when every byte is valid, and then the
\* result read back as bytes is the input; otherwise it is Err(i) with i the
\* zero-based index of the first invalid byte; the empty input is Ok.
C5_SliceFromBytes ==
    op = "slice_from_bytes" =>
        LET K == arg[1]
            bs == arg[2]
            AllValid == \A i \in 1..Len(bs) : is_byte_valid(K, bs[i])
        IN  /\ ret[1] = "Ok" <=> AllValid
            /\ ret[1] = "Ok" => slice_as_bytes(ret[2]) = bs
            /\ ret[1] # "Ok" =>
                /\ ret[1] = "Err"
                /\ ret[2] \in 0..(Len(bs) - 1)
                /\ ~is_byte_valid(K, bs[ret[2] + 1])
                /\ \A j \in 1..ret[2] : is_byte_valid(K, bs[j])
            /\ bs = <<>> => ret = Ok(<<>>)

\* C5's case: two invalid bytes, the first of them at index 1
C5_Witness ==
    /\ op = "slice_from_bytes"
    /\ arg = <<"Printable", <<32, 27, 127>>>>
    /\ ret = Err(1)

\* C6: for each framed Fe variant and every body, write_to writes ESC, the
\* variant's kind byte, the body bytes in order, then the String Terminator
\* ESC '\' (0x1B 0x5C), and nothing after it.
C6_FramedEndsWithStringTerminator ==
    (Displayed("write_to") /\ arg[1] \in FeFramed) =>
        out = <<27, kind_byte(arg)>> \o slice_as_bytes(arg[2]) \o <<27, 92>>

\* the variants of FeSeq in declaration order
FeDeclared ==
    <<"Pad", "HighOctetPreset", "BreakPermittedHere", "NoBreakHere", "Index",
      "NextLine", "StartOfSelArea", "EndOfSelArea", "HorizTabSet",
      "RightJustify", "VertTabSet", "PartLineDown", "PartLineUp",
      "ReverseIndex", "SingleShift2", "SingleShift3", "DeviceControlString",
      "PrivateUse1", "PrivateUse2", "SetTransmitState", "CancelCharacter",
      "MessageWaiting", "StartOfProtArea", "EndOfProtArea", "StartOfString",
      "Sgci", "Sci", "Csi", "StringTerminator", "OsCommand", "PrivacyMessage",
      "AppProgramCommand">>

\* the byte ECMA-48 assigns: 0x80 + position, and '[' in place of 0x9B
AssignedByte(v) ==
    LET i == CHOOSE j \in 1..Len(FeDeclared) : FeDeclared[j] = v
    IN  IF v = "Csi" THEN 91 ELSE 128 + (i - 1)

\* C7: kind_byte maps the 32 variants, in declaration order, to 0x80..0x9F
\* with '[' in place of 0x9B; no two different variants share a kind byte.
C7_KindByteAssigned ==
    op = "kind_byte" =>
        /\ ret = AssignedByte(arg[1])
        /\ \A j \in 1..Len(FeDeclared) :
              FeDeclared[j] # arg[1] => kind_byte(<<FeDeclared[j]>>) # ret

\* C8: FeSeq::Csi(c).write_to writes exactly what c's own Display writes:
\* ESC '[' once, the parameter bytes, the intermediate bytes, the final byte.
C8_CsiWrittenOnce ==
    (Displayed("write_to") /\ arg[1] = "Csi") =>
        /\ out = Text(fmt_Csi(arg[2]))
        /\ out = CsiPrefix \o slice_as_bytes(arg[2].parameter_bytes)
                    \o slice_as_bytes(arg[2].intermediate_bytes)
                    \o <<byte(arg[2].final_byte)>>

\* the SGR variant ECMA-48 (and its colour extensions) assigns to each code
\* 0..59; "" where none is modelled
SgrAssigned ==
    <<"Reset", "WeightBoldOn", "WeightThinOn", "ItalicOn", "UnderlineSingle",
      "BlinkSlow", "BlinkRapid", "Invert", "ConcealOn", "StrikethroughOn",
      "FontPrimary", "Font1", "Font2", "Font3", "Font4", "Font5", "Font6",
      "Font7", "Font8", "Font9", "Fraktur", "UnderlineDouble", "WeightAllOff",
      "ItalicOff", "UnderlineNone", "BlinkNone", "ProportionalSpacingOn",
      "ReversedOff", "ConcealOff", "StrikethroughOff",
      "Foreground1", "Foreground2", "Foreground3", "Foreground4",
      "Foreground5", "Foreground6", "Foreground7", "Foreground8",
      "Foreground", "ForegroundDefault",
      "Background1", "Background2", "Background3", "Background4",
      "Background5", "Background6", "Background7", "Background8",
      "Background", "BackgroundDefault",
      "ProportionalSpacingOff", "FrameFramed", "FrameEncircled",
      "OverlinedOn", "FrameNone", "OverlinedOff", "", "",
      "UnderlineColor", "UnderlineColorDefault">>

SgrCode(v) == (CHOOSE j \in 1..Len(SgrAssigned) : SgrAssigned[j] = v) - 1

\* the numeric parameters an Sgr value stands for
SgrNumbers(s) ==
    IF Len(s) = 1 THEN <<SgrCode(s[1])>>
    ELSE <<SgrCode(s[1])>> \o ColorNumbers(s[2])

\* C9: Display for Sgr writes ESC '[', the parameter text, 'm'; the text is
\* the variant's ECMA-48 code in decimal, no two payload-free variants share
\* a code, and Foreground / Background / UnderlineColor write 38 / 48 / 58,
\* then 5;<n> or 2;<r>;<g>;<b>, every number in decimal without leading zeros.
C9_SgrCodes ==
    Displayed("fmt_Sgr") =>
        LET params == SubSeq(out, 3, Len(out) - 1)
        IN  /\ StartsWith(out, CsiPrefix)
            /\ Len(out) >= 4
            /\ out[Len(out)] = 109
            /\ params = Text(write_params_to(arg))
            /\ IsParams(params, SgrNumbers(arg))
            /\ Len(arg) = 1 =>
                  \A i \in 1..Len(SgrPlain) :
                      SgrPlain[i] # arg[1] =>
                          Text(write_params_to(<<SgrPlain[i]>>)) # params

\* C9's case: Background(Rgb(255,0,128)) displayed as ESC[48;2;255;0;128m
C9_Witness ==
    /\ Displayed("fmt_Sgr")
    /\ arg = <<"Background", <<"Rgb", 255, 0, 128>>>>
    /\ out = <<27, 91, 52, 56, 59, 50, 59, 50, 53, 53, 59, 48, 59,
               49, 50, 56, 109>>

\* C10: Movement::Absolute { row, column } is displayed as ESC '[' row ';'
\* column 'H'; the final byte is neither 'J' (EraseDisplay) nor 'K'
\* (EraseLine).
C10_AbsoluteEndsWithH ==
    (Displayed("fmt_Movement") /\ arg.m[1] = "Absolute") =>
        /\ StartsWith(out, CsiPrefix)
        /\ IsParams(SubSeq(out, 3, Len(out) - 1), <<arg.m[2], arg.m[3]>>)
        /\ out[Len(out)] = 72
        /\ out[Len(out)] \notin {74, 75}

\* the magnitude of a delta
Magnitude(d) == IF d < 0 THEN -d ELSE d

\* the sequence the claim gives for one set delta: ESC '[' |d| and the
\* direction letter; nothing for an unset delta
DeltaText(delta, neg, pos) ==
    IF IsSome(delta)
    THEN CsiPrefix \o Dec(Magnitude(delta[1]))
            \o <<IF delta[1] < 0 THEN neg ELSE pos>>
    ELSE <<>>

\* C11: for Movement::Relative and every i8 delta d, a set rows delta writes
\* ESC '[' |d| 'A' (d < 0) or 'B', a set columns delta ESC '[' |d| 'D'
\* (d < 0) or 'C', rows before columns, nothing for an unset delta; |d| has
\* no sign character and computing it never overflows or fails, also for
\* d = -128.
C11_RelativeWritesMagnitude ==
    (op = "fmt_Movement" /\ arg.m[1] = "Relative" /\ sink.reliable) =>
        /\ ret = "Ok"
        /\ out = DeltaText(arg.m[2], 65, 66) \o DeltaText(arg.m[3], 68, 67)
        /\ \A i \in 1..Len(out) : out[i] # 45

\* the bytes that are a complete UTF-8 encoding on their own: U+0000..U+007F
Ascii == 0..127

\* C12: every kind with the UTF-8 projection (CsiParam, CsiInter, CsiFinal,
\* DcsChar) accepts only bytes in 0x00..=0x7F, so a value built by new or
\* slice_from_bytes projects to a one-byte UTF-8 string whose code point is
\* the wrapped byte; no kind that accepts a byte >= 0x80 has the projection.
C12_ProjectionIsAscii ==
    /\ (op = "new" /\ IsSome(ret)) =>
          /\ arg[1] \in Utf8able => arg[2] \in Ascii
          /\ arg[2] \notin Ascii => arg[1] \notin Utf8able
    /\ (op = "slice_from_bytes" /\ ret[1] = "Ok" /\ arg[1] \in Utf8able) =>
          \A i \in 1..Len(ret[2]) : slice_as_str(ret[2])[i] \in Ascii
    /\ op = "as_str" =>
          /\ Len(ret) = 1
          /\ ret[1] \in Ascii
          /\ ret[1] = byte(arg)
    /\ op = "as_char" => (ret \in Ascii /\ ret = byte(arg))
    /\ op = "slice_as_str" =>
          /\ Len(ret) = Len(arg[2])
          /\ \A i \in 1..Len(ret) : ret[i] \in Ascii /\ ret[i] = byte(arg[2][i])

\* C12's case: the last byte DcsChar accepts projected to the string "~"
C12_Witness ==
    /\ op = "as_str"
    /\ arg = <<"DcsChar", 126>>
    /\ ret = <<126>>

Serializers ==
    {"fmt_Csi", "fmt_Sgr", "fmt_StateChange", "fmt_Movement",
     "fmt_EraseDisplay", "fmt_EraseLine", "write_to"}

\* the writes the serializer called last makes on a sink that never fails
FailureFree ==
    CASE op = "fmt_Csi" -> fmt_Csi(arg)
      [] op = "fmt_Sgr" -> fmt_Sgr(arg)
      [] op = "fmt_StateChange" -> fmt_StateChange(arg)
      [] op = "fmt_Movement" -> fmt_Movement(arg.m, arg.overflow_checks)
      [] op = "fmt_EraseDisplay" -> fmt_EraseDisplay(arg)
      [] op = "fmt_EraseLine" -> fmt_EraseLine(arg)
      [] op = "write_to" -> write_to(arg)

\* the serializer called last reached its k-th write
Reaches(k) ==
    /\ k <= Len(FailureFree)
    /\ \A i \in 1..k : FailureFree[i][1] = "w"

\* C13: for every serializer and every position k, if the k-th write to the
\* sink fails the serializer returns that failure and writes nothing more:
\* the sink holds exactly the first k-1 writes of the failure-free output.
\* A sink whose failing write is never reached sees no failure.
C13_FailurePropagates ==
    (op \in Serializers /\ ~sink.reliable) =>
        LET k == sink.cap + 1
        IN  /\ Reaches(k) =>
                /\ ret = "Err"
                /\ out = Text(SubSeq(FailureFree, 1, k - 1))
            /\ ~Reaches(k) => ret # "Err"

\* C13's case: the 7th write of ESC[22;1;38;5;4m failed; the sink holds
\* ESC[22;1; and Display returned the error
C13_Witness ==
    /\ op = "fmt_StateChange"
    /\ arg = with_weight(with_foreground(StateChange_new, <<"Table", 4>>), "Bold")
    /\ sink = [reliable |-> FALSE, cap |-> 6]
    /\ ret = "Err"
    /\ out = <<27, 91, 50, 50, 59, 49, 59>>

\* the two bytes write_to appends after a body: ESC and StringTerminator's
\* kind byte
Terminator == <<27, kind_byte(<<"StringTerminator">>)>>

BodyKinds == {BodyKind(v) : v \in FeFramed}

\* C14: for each framed variant and every body built through the validated
\* constructors, the terminator write_to appends occurs exactly once in the
\* output, as its last two bytes; no body byte equals StringTerminator's
\* kind byte; every Printable or FormatEffector byte converted with From
\* into DcsChar is valid for DcsChar.
C14_TerminatorOnlyAtEnd ==
    /\ (Displayed("write_to") /\ arg[1] \in FeFramed) =>
          /\ {i \in 1..(Len(out) - 1) : SubSeq(out, i, i + 1) = Terminator}
                = {Len(out) - 1}
          /\ \A i \in 1..Len(arg[2]) : byte(arg[2][i]) # Terminator[2]
    /\ (op = "new" /\ IsSome(ret) /\ arg[1] \in BodyKinds) =>
          arg[2] # Terminator[2]
    /\ op = "DcsChar_from" =>
          /\ ret[1] = "DcsChar"
          /\ byte(ret) = byte(arg)
          /\ is_byte_valid("DcsChar", byte(ret))

\* C14's case: a StartOfString body that holds ESC '\' and ESC has been
\* written; the appended terminator is the only one
C14_Witness ==
    /\ Displayed("write_to")
    /\ arg = <<"StartOfString",
               <<<<"SosChar", 27>>, <<"SosChar", 92>>, <<"SosChar", 27>>>>>>
    /\ out = <<27, 151, 27, 92, 27, 27, 156>>

=============================================================================
